---- MODULE Spec2Model ----
(***************************************************************************)
(* pytest-azurepipelines: the Docker-to-host path remapping                *)
(* (apply_docker_mappings) and the end-of-session hook                     *)
(* (pytest_sessionfinish) of src/pytest_azurepipelines.py.                 *)
(*                                                                         *)
(* Python strings are sequences of one-character strings, so that          *)
(* str.splitlines, str.split(' '), str.startswith and slicing are computed *)
(* character by character as the interpreter computes them.                *)
(***************************************************************************)
EXTENDS Integers, Sequences, FiniteSets, TLC

VARIABLES
    m_text,        \* apply_docker_mappings: the mountinfo argument
    m_path,        \* apply_docker_mappings: the dockerpath argument
    m_result,      \* apply_docker_mappings: the returned path
    m_pc,          \* "idle" | "ready" | "done"
    opt,           \* session.config.option: the plugin's options
    env,           \* the file system and plugin manager the hook reads
    sess,          \* exitstatus and the session's counters
    pc,            \* position of the hook
    nunit_xmlpath, \* config.option.nunit_xmlpath
    mountinfo,     \* local of pytest_sessionfinish
    xmlabspath,    \* local of pytest_sessionfinish
    events         \* what the hook did, in order: file reads and printed lines

vars == <<m_text, m_path, m_result, m_pc, opt, env, sess, pc, nunit_xmlpath,
          mountinfo, xmlabspath, events>>

----------------------------------------------------------------------------
(* Bounds *)

MaxLines == 2

MaxTests == 2

----------------------------------------------------------------------------
(* String constants of the module *)

DEFAULT_PATH == <<"t", "e", "s", "t", "-", "o", "u", "t", "p", "u", "t", ".", "x", "m", "l">>

DEFAULT_COVERAGE_PATH == <<"c", "o", "v", "e", "r", "a", "g", "e", "/", "c", "o", "v", "e", "r", "a", "g", "e", ".", "x", "m", "l">>

DEFAULT_HTML_COVERAGE_PATH == <<"c", "o", "v", "e", "r", "a", "g", "e", "/", "h", "t", "m", "l", "c", "o", "v">>

----------------------------------------------------------------------------
(* Python string primitives *)

\* str.startswith(prefix)
startswith(s, prefix) ==
    /\ Len(prefix) <= Len(s)
    /\ SubSeq(s, 1, Len(prefix)) = prefix

\* s[n:]
slice_from(s, n) == SubSeq(s, n + 1, Len(s))

\* str.splitlines(): a line ends at each line boundary; no empty last line.
RECURSIVE splitlines_from(_, _, _, _)
splitlines_from(text, i, cur, acc) ==
    IF i > Len(text)
    THEN (IF cur = <<>> THEN acc ELSE Append(acc, cur))
    ELSE IF text[i] = "\n"
         THEN splitlines_from(text, i + 1, <<>>, Append(acc, cur))
         ELSE splitlines_from(text, i + 1, Append(cur, text[i]), acc)

splitlines(text) == splitlines_from(text, 1, <<>>, <<>>)

\* str.split(sep) for a one-character sep: every sep cuts, empty fields kept.
RECURSIVE split_from(_, _, _, _, _)
split_from(s, sep, i, cur, acc) ==
    IF i > Len(s)
    THEN Append(acc, cur)
    ELSE IF s[i] = sep
         THEN split_from(s, sep, i + 1, <<>>, Append(acc, cur))
         ELSE split_from(s, sep, i + 1, Append(cur, s[i]), acc)

split(s, sep) == split_from(s, sep, 1, <<>>, <<>>)

\* str.replace(old, "") for a one-character old
RECURSIVE strip_char(_, _)
strip_char(s, old) ==
    IF s = <<>> THEN <<>>
    ELSE IF Head(s) = old THEN strip_char(Tail(s), old)
         ELSE <<Head(s)>> \o strip_char(Tail(s), old)

----------------------------------------------------------------------------
(* apply_docker_mappings *)

\* The body of the for loop, from line i on, in a loop that stops at the
\* first matching line (a break after the substitution).
RECURSIVE apply_lines_nochain(_, _, _)
apply_lines_nochain(lines, i, dockerpath) ==
    IF i > Len(lines) THEN dockerpath
    ELSE LET words == split(lines[i], " ") IN
         IF Len(words) < 5 THEN apply_lines_nochain(lines, i + 1, dockerpath)
         ELSE IF startswith(dockerpath, words[5])
              THEN words[4] \o slice_from(dockerpath, Len(words[5]))
              ELSE apply_lines_nochain(lines, i + 1, dockerpath)

apply_docker_mappings_nochain(mountinfo_text, dockerpath) ==
    apply_lines_nochain(splitlines(mountinfo_text), 1, dockerpath)

\* A loop that leaves at the first short line (break for continue).
RECURSIVE apply_lines_break(_, _, _)
apply_lines_break(lines, i, dockerpath) ==
    IF i > Len(lines) THEN dockerpath
    ELSE LET words == split(lines[i], " ") IN
         IF Len(words) < 5 THEN dockerpath
         ELSE IF startswith(dockerpath, words[5])
              THEN apply_lines_break(lines, i + 1,
                       words[4] \o slice_from(dockerpath, Len(words[5])))
              ELSE apply_lines_break(lines, i + 1, dockerpath)

apply_docker_mappings_break(mountinfo_text, dockerpath) ==
    apply_lines_break(splitlines(mountinfo_text), 1, dockerpath)

\* A loop that tests every line against the path it was given, so that the
\* last matching line decides.
RECURSIVE apply_lines_lastwins(_, _, _, _)
apply_lines_lastwins(lines, i, original, dockerpath) ==
    IF i > Len(lines) THEN dockerpath
    ELSE LET words == split(lines[i], " ") IN
         IF Len(words) < 5 THEN apply_lines_lastwins(lines, i + 1, original, dockerpath)
         ELSE IF startswith(original, words[5])
              THEN apply_lines_lastwins(lines, i + 1, original,
                       words[4] \o slice_from(original, Len(words[5])))
              ELSE apply_lines_lastwins(lines, i + 1, original, dockerpath)

apply_docker_mappings_lastwins(mountinfo_text, dockerpath) ==
    apply_lines_lastwins(splitlines(mountinfo_text), 1, dockerpath, dockerpath)

\* The for loop of apply_docker_mappings from line i on (Python's words[3]
\* and words[4] are words[4] and words[5] of a 1-based sequence).
RECURSIVE apply_lines(_, _, _)
apply_lines(lines, i, dockerpath) ==
    IF i > Len(lines) THEN dockerpath
    ELSE LET words == split(lines[i], " ") IN
         IF Len(words) < 5 THEN apply_lines(lines, i + 1, dockerpath)
         ELSE LET docker_mnt_path == words[5]
                  host_mnt_path   == words[4]
              IN IF startswith(dockerpath, docker_mnt_path)
                 THEN apply_lines(lines, i + 1,
                          host_mnt_path \o slice_from(dockerpath, Len(docker_mnt_path)))
                 ELSE apply_lines(lines, i + 1, dockerpath)

apply_docker_mappings(mountinfo_text, dockerpath) ==
    apply_lines(splitlines(mountinfo_text), 1, dockerpath)

----------------------------------------------------------------------------
(* Inputs of apply_docker_mappings: mount-info texts built from lines of 1 *)
(* to 6 space-separated fields, and absolute paths.                        *)

HostA == <<"/", "h", "o", "s", "t", "/", "a">>

HostB == <<"/", "h", "o", "s", "t", "/", "b">>

Mnt == <<"/", "m", "n", "t">>

MntA == <<"/", "m", "n", "t", "/", "a">>

HostASub == <<"/", "h", "o", "s", "t", "/", "a", "/", "s", "u", "b">>

FileInSub == <<"/", "m", "n", "t", "/", "a", "/", "s", "u", "b", "/", "f", "i", "l", "e", ".", "x", "m", "l">>

FileInHostB == <<"/", "h", "o", "s", "t", "/", "b", "/", "f", "i", "l", "e", ".", "x", "m", "l">>

MntAb == <<"/", "m", "n", "t", "/", "a", "b">>

SrvFile == <<"/", "s", "r", "v", "/", "t", ".", "x", "m", "l">>

\* Fields 0..2 of a mountinfo line (mount id, parent id, major:minor).
IdField == <<"3", "6">>

\* Field 5 of a mountinfo line (mount options).
OptionsField == <<"r", "w">>

\* Values of field 3 (root of the mount: the host side of a bind mount).
HostFields == {HostA, HostB, Mnt}

\* Values of field 4 (mount point in the container).
ContainerFields == {MntA, HostASub, Mnt}

RECURSIVE join(_, _)
join(sep, parts) ==
    IF parts = <<>> THEN <<>>
    ELSE IF Len(parts) = 1 THEN parts[1]
         ELSE parts[1] \o sep \o join(sep, Tail(parts))

\* Lines of fewer than 5 fields: the empty line, 1 to 4 fields, and 4 fields
\* of which one is the empty field between two spaces in a row.
ShortLines ==
    {<<>>, IdField, join(<<" ">>, <<IdField, IdField>>),
     join(<<" ">>, <<IdField, IdField, IdField>>),
     join(<<" ">>, <<IdField, <<>>, IdField, HostA>>)}
    \cup {join(<<" ">>, <<IdField, IdField, IdField, h>>) : h \in HostFields}

\* Lines of 5 or 6 fields, and of 5 fields of which one is the empty field
\* between two spaces in a row.
FullLines ==
    {join(<<" ">>, <<IdField, IdField, IdField, h, c>>) :
        h \in HostFields, c \in ContainerFields}
    \cup {join(<<" ">>, <<IdField, IdField, IdField, h, MntA, OptionsField>>) :
        h \in HostFields}
    \cup {join(<<" ">>, <<IdField, <<>>, IdField, HostB, c>>) :
        c \in ContainerFields}

MountinfoLines == ShortLines \cup FullLines

\* The text of a file with these lines, with or without a final newline.
MountinfoText(ls, final_newline) ==
    join(<<"\n">>, ls) \o (IF final_newline THEN <<"\n">> ELSE <<>>)

MountinfoTexts ==
    {MountinfoText(ls, nl) :
        ls \in UNION {[1..k -> MountinfoLines] : k \in 0..MaxLines},
        nl \in BOOLEAN}

DockerPaths == {FileInSub, MntAb, SrvFile, HostASub}

----------------------------------------------------------------------------
(* Inputs of the hooks *)

None == <<>>

ExplicitXmlPath == <<"/", "m", "n", "t", "/", "a", "/", "r", ".", "x", "m", "l">>

\* The default of --test-run-title
DefaultRunTitle == <<"P", "y", "t", "e", "s", "t", " ", "r", "e", "s", "u", "l", "t", "s">>

RunTitle == <<"P", "y", "'", "s">>

CwdMounted == <<"/", "m", "n", "t", "/", "a", "/", "s", "u", "b">>

CwdPlain == <<"/", "s", "r", "v">>

ChainLine1 == join(<<" ">>, <<IdField, IdField, IdField, HostA, MntA, OptionsField>>)

ChainLine2 == join(<<" ">>, <<IdField, IdField, IdField, HostB, HostASub, OptionsField>>)

\* What reading /proc/1/mountinfo can give: an error (open or decode
\* raises), or the text of the file.
ProcMountinfo ==
    {[ok |-> FALSE, text |-> <<>>]}
    \cup {[ok |-> TRUE, text |-> t] :
            t \in {<<>>,
                   MountinfoText(<<ChainLine1, ChainLine2>>, TRUE),
                   MountinfoText(<<IdField, ChainLine1>>, TRUE)}}

Options ==
    [azure_run_title : {DefaultRunTitle, RunTitle},
     no_coverage_upload : BOOLEAN,
     no_docker_discovery : BOOLEAN]

Environments ==
    [cwd : {CwdMounted, CwdPlain},
     dockerenv : {"absent", "file", "dir"},
     proc_mountinfo : ProcMountinfo,
     has_pytest_cov : BOOLEAN,
     cov_xml_exists : BOOLEAN,
     inline_css_error : BOOLEAN]

Sessions ==
    {s \in [exitstatus : {0, 1},
            testsfailed : 0..MaxTests,
            testscollected : 0..MaxTests,
            shouldfail : BOOLEAN] : s.testsfailed <= s.testscollected}

----------------------------------------------------------------------------
(* Output lines and file accesses of the hook, as events *)

Event(kind, path1, path2, title, n1, n2) ==
    [kind |-> kind, path1 |-> path1, path2 |-> path2, title |-> title,
     n1 |-> n1, n2 |-> n2]

\* io.open('/proc/1/mountinfo', 'rb')
OpenMountinfo == Event("open:/proc/1/mountinfo", <<>>, <<>>, <<>>, 0, 0)

\* ##vso[results.publish type=NUnit;runTitle='<title>';publishRunAttachments=true;]<path>
ResultsPublish(path, title) == Event("results.publish", path, <<>>, title, 0, 0)

\* Skipping uploading of test results because --no-docker-discovery set.
SkipResults == Event("skip-results", <<>>, <<>>, <<>>, 0, 0)

\* ##vso[task.logissue type=error;]<failed> test(s) failed, <collected> test(s) collected.
LogIssueError(failed, collected) ==
    Event("logissue-error", <<>>, <<>>, <<>>, failed, collected)

\* ##vso[task.logissue type=warning;]Failed to inline CSS styles in coverage reports. Error: ...
WarnInlineFailed == Event("logissue-warning:inline-css", <<>>, <<>>, <<>>, 0, 0)

\* ##vso[task.logissue type=warning;]Coverage XML was not created, skipping upload.
WarnNoCoverageXml == Event("logissue-warning:no-coverage-xml", <<>>, <<>>, <<>>, 0, 0)

\* ##vso[codecoverage.publish codecoveragetool=Cobertura;summaryfile=..;reportdirectory=..;]
CoveragePublish(covpath, reportdir) ==
    Event("codecoverage.publish", covpath, reportdir, <<>>, 0, 0)

\* The call of inline_css_into_each_html_report_file(reportdir), which reads
\* and rewrites the HTML files of reportdir
InlineCss(reportdir) == Event("inline-css", reportdir, <<>>, <<>>, 0, 0)

\* Skipping uploading of coverage data.
SkipCoverage == Event("skip-coverage", <<>>, <<>>, <<>>, 0, 0)

----------------------------------------------------------------------------
(* Helpers of the hooks *)

\* os.path.normpath(os.path.abspath(os.path.expanduser(os.path.expandvars(p))))
\* for a normalized p without ~ or $: a relative p is joined to the cwd.
abspath(p) ==
    IF startswith(p, <<"/">>) THEN p ELSE env.cwd \o <<"/">> \o p

\* os.path.isfile('/.dockerenv'): False for a missing file and for a directory
isfile_dockerenv == env.dockerenv = "file"

\* inline_css_into_each_html_report_file with no except clause around it
try_to_inline_css_uncaught(reportdir) ==
    IF env.inline_css_error
    THEN [raised |-> TRUE, printed |-> <<>>]
    ELSE [raised |-> FALSE, printed |-> <<>>]

\* try_to_inline_css_into_each_html_report_file: what it prints, and whether
\* an exception leaves it.
try_to_inline_css_into_each_html_report_file(reportdir) ==
    IF env.inline_css_error
    THEN [raised |-> FALSE, printed |-> <<WarnInlineFailed>>]
    ELSE [raised |-> FALSE, printed |-> <<>>]

----------------------------------------------------------------------------
(* The hooks *)

HookIdle ==
    /\ opt = [azure_run_title |-> DefaultRunTitle, no_coverage_upload |-> FALSE,
              no_docker_discovery |-> FALSE]
    /\ env = [cwd |-> CwdPlain, dockerenv |-> "absent",
              proc_mountinfo |-> [ok |-> FALSE, text |-> <<>>],
              has_pytest_cov |-> FALSE, cov_xml_exists |-> FALSE,
              inline_css_error |-> FALSE]
    /\ sess = [exitstatus |-> 0, testsfailed |-> 0, testscollected |-> 0,
               shouldfail |-> FALSE]
    /\ pc = "idle"
    /\ nunit_xmlpath = None
    /\ mountinfo = None
    /\ xmlabspath = <<>>
    /\ events = <<>>

RemapIdle ==
    /\ m_text = <<>>
    /\ m_path = <<>>
    /\ m_result = <<>>
    /\ m_pc = "idle"

\* The state when pytest has parsed the command line and is about to call
\* the plugin's hooks.
Init ==
    /\ RemapIdle
    /\ opt \in Options
    /\ env \in Environments
    /\ sess \in Sessions
    /\ pc = "configure"
    /\ nunit_xmlpath \in {None, ExplicitXmlPath}
    /\ mountinfo = None
    /\ xmlabspath = <<>>
    /\ events = <<>>

\* pytest_configure: the default of --nunitxml
pytest_configure ==
    /\ pc = "configure"
    /\ nunit_xmlpath' = IF nunit_xmlpath = None THEN DEFAULT_PATH ELSE nunit_xmlpath
    /\ pc' = "sessionfinish"
    /\ UNCHANGED <<m_text, m_path, m_result, m_pc, opt, env, sess, mountinfo,
                   xmlabspath, events>>

\* pytest_sessionfinish, lines 119-134: the result path, the detection of the
\* container and the read of the mount table. open() and decode() are inside
\* no try statement: an error there leaves the hook.
sessionfinish_detect ==
    /\ pc = "sessionfinish"
    /\ IF ~opt.no_docker_discovery /\ isfile_dockerenv
       THEN IF env.proc_mountinfo.ok
            THEN /\ mountinfo' = env.proc_mountinfo.text
                 /\ xmlabspath' =
                        IF mountinfo' # <<>>
                        THEN apply_docker_mappings(mountinfo', abspath(nunit_xmlpath))
                        ELSE abspath(nunit_xmlpath)
                 /\ events' = Append(events, OpenMountinfo)
                 /\ pc' = "publish"
            ELSE /\ events' = Append(events, OpenMountinfo)
                 /\ pc' = "raised"
                 /\ xmlabspath' = abspath(nunit_xmlpath)
                 /\ UNCHANGED mountinfo
       ELSE /\ xmlabspath' = abspath(nunit_xmlpath)
            /\ pc' = "publish"
            /\ UNCHANGED <<mountinfo, events>>
    /\ UNCHANGED <<m_text, m_path, m_result, m_pc, opt, env, sess, nunit_xmlpath>>

\* pytest_sessionfinish, lines 136-146: the results line
sessionfinish_publish_results ==
    /\ pc = "publish"
    /\ LET description == strip_char(opt.azure_run_title, "'") IN
       IF ~opt.no_docker_discovery
       THEN events' = Append(events, ResultsPublish(xmlabspath, description))
       ELSE events' = Append(events, SkipResults)
    /\ pc' = "failures"
    /\ UNCHANGED <<m_text, m_path, m_result, m_pc, opt, env, sess, nunit_xmlpath,
                   mountinfo, xmlabspath>>

\* The condition of line 148
should_log_failures ==
    sess.exitstatus # 0 /\ sess.testsfailed > 0 /\ ~sess.shouldfail

\* pytest_sessionfinish, lines 148-153: the error about failed tests
sessionfinish_log_failures ==
    /\ pc = "failures"
    /\ IF should_log_failures
       THEN events' = Append(events, LogIssueError(sess.testsfailed, sess.testscollected))
       ELSE UNCHANGED events
    /\ pc' = "coverage"
    /\ UNCHANGED <<m_text, m_path, m_result, m_pc, opt, env, sess, nunit_xmlpath,
                   mountinfo, xmlabspath>>

\* The condition of line 155
should_upload_coverage ==
    ~opt.no_coverage_upload /\ ~opt.no_docker_discovery /\ env.has_pytest_cov

\* Lines 161-163: covpath and reportdir, remapped when mountinfo is not empty
coverage_paths(covpath, reportdir) ==
    IF mountinfo # <<>>
    THEN [covpath |-> apply_docker_mappings(mountinfo, covpath),
          reportdir |-> apply_docker_mappings(mountinfo, reportdir)]
    ELSE [covpath |-> covpath, reportdir |-> reportdir]

\* Lines 171-176 with the warning left out
missing_coverage_xml_silent == <<>>

\* Lines 171-176: what is printed when the coverage XML does not exist
missing_coverage_xml == <<WarnNoCoverageXml>>

\* pytest_sessionfinish, lines 155-178: the coverage outcome
sessionfinish_coverage ==
    /\ pc = "coverage"
    /\ IF should_upload_coverage
       THEN LET covpath   == abspath(DEFAULT_COVERAGE_PATH)
                reportdir == abspath(DEFAULT_HTML_COVERAGE_PATH)
            IN IF env.cov_xml_exists
               THEN LET paths  == coverage_paths(covpath, reportdir)
                        inline == try_to_inline_css_into_each_html_report_file(
                                      paths.reportdir)
                    IN IF inline.raised
                       THEN /\ events' = events \o <<InlineCss(paths.reportdir)>>
                                           \o inline.printed
                            /\ pc' = "raised"
                       ELSE /\ events' = events \o <<InlineCss(paths.reportdir)>>
                                           \o inline.printed \o
                                    <<CoveragePublish(paths.covpath, paths.reportdir)>>
                            /\ pc' = "done"
               ELSE /\ events' = events \o missing_coverage_xml
                    /\ pc' = "done"
       ELSE /\ events' = Append(events, SkipCoverage)
            /\ pc' = "done"
    /\ UNCHANGED <<m_text, m_path, m_result, m_pc, opt, env, sess, nunit_xmlpath,
                   mountinfo, xmlabspath>>

Next ==
    \/ pytest_configure
    \/ sessionfinish_detect
    \/ sessionfinish_publish_results
    \/ sessionfinish_log_failures
    \/ sessionfinish_coverage

Spec == Init /\ [][Next]_vars

----------------------------------------------------------------------------
(* apply_docker_mappings on its own *)

InitRemap ==
    /\ HookIdle
    /\ m_text \in MountinfoTexts
    /\ m_path \in DockerPaths
    /\ m_result = <<>>
    /\ m_pc = "ready"

call_apply_docker_mappings ==
    /\ m_pc = "ready"
    /\ m_result' = apply_docker_mappings(m_text, m_path)
    /\ m_pc' = "done"
    /\ UNCHANGED <<m_text, m_path, opt, env, sess, pc, nunit_xmlpath, mountinfo,
                   xmlabspath, events>>

NextRemap == call_apply_docker_mappings

SpecRemap == InitRemap /\ [][NextRemap]_vars

----------------------------------------------------------------------------
(* The mount table and the remapping as the specification states them:    *)
(* MountTableParser.parse and PathRemapper.remap.                          *)

\* The lines of a text with 5 or more fields, in line order.
LongLines(text) ==
    SelectSeq(splitlines(text), LAMBDA l : Len(split(l, " ")) >= 5)

\* One mount entry per long line: (host = field 3, container = field 4).
ParseEntries(text) ==
    LET long == LongLines(text) IN
    [i \in 1..Len(long) |->
        [host |-> split(long[i], " ")[4], container |-> split(long[i], " ")[5]]]

\* One entry applied to a path.
RemapStep(entry, path) ==
    IF startswith(path, entry.container)
    THEN entry.host \o slice_from(path, Len(entry.container))
    ELSE path

\* The entries applied in order, each to the path the entries before it left.
RECURSIVE RemapEntries(_, _)
RemapEntries(entries, path) ==
    IF entries = <<>> THEN path
    ELSE RemapEntries(Tail(entries), RemapStep(Head(entries), path))

\* The text with its short lines removed.
WithoutShortLines(text) == join(<<"\n">>, LongLines(text))

ChainEntries ==
    <<[host |-> HostA, container |-> MntA],
      [host |-> HostB, container |-> HostASub]>>

\* C1: apply_docker_mappings scans the entries in line order, replaces a
\* matching container prefix of the CURRENT path by the host prefix and goes
\* on with the updated path; for [(/host/a, /mnt/a), (/host/b, /host/a/sub)]
\* and /mnt/a/sub/file.xml the result is /host/b/file.xml; a path that no
\* entry matches (also with no entry at all) is returned unchanged.
C1_ChainedScan ==
    m_pc = "done" =>
        LET entries == ParseEntries(m_text) IN
        /\ m_result = RemapEntries(entries, m_path)
        /\ (entries = ChainEntries /\ m_path = FileInSub => m_result = FileInHostB)
        /\ ((\A i \in 1..Len(entries) : ~startswith(m_path, entries[i].container))
                => m_result = m_path)

\* C1 witness: the two chained entries have been applied to /mnt/a/sub/file.xml.
C1_Witness ==
    /\ m_pc = "done"
    /\ ParseEntries(m_text) = ChainEntries
    /\ m_path = FileInSub
    /\ m_result = FileInHostB

\* C2: every line of 5 or more fields contributes (host = field 3,
\* container = field 4) in line order, and a line of fewer fields is dropped
\* without changing what its neighbours map: the result for a text is the
\* result for the text without its short lines.
C2_ShortLinesDropped ==
    m_pc = "done" =>
        /\ m_result = apply_docker_mappings(WithoutShortLines(m_text), m_path)
        /\ (Len(LongLines(m_text)) = 1 =>
                LET words == split(LongLines(m_text)[1], " ") IN
                m_result = RemapStep([host |-> words[4], container |-> words[5]], m_path))
        /\ (LongLines(m_text) = <<>> => m_result = m_path)

\* C2 witness: a short line stands before a long line that rewrote the path.
C2_Witness ==
    /\ m_pc = "done"
    /\ Len(splitlines(m_text)) = 2
    /\ Len(split(splitlines(m_text)[1], " ")) = 4
    /\ Len(split(splitlines(m_text)[2], " ")) >= 5
    /\ m_result # m_path

\* Two entries, both with a container prefix that matches the input path.
TwoOverlappingEntries ==
    /\ m_pc = "done"
    /\ Len(ParseEntries(m_text)) = 2
    /\ startswith(m_path, ParseEntries(m_text)[1].container)
    /\ startswith(m_path, ParseEntries(m_text)[2].container)

\* C3 as claimed: of two entries whose container prefixes both match the
\* input path the later one overrides the earlier one (last match wins).
C3_LastMatchWins ==
    TwoOverlappingEntries =>
        LET later == ParseEntries(m_text)[2] IN
        m_result = later.host \o slice_from(m_path, Len(later.container))

\* C3 as amended: of two entries whose container prefixes both match the
\* input path the earlier one rewrites the path; the later one is tested
\* against the rewritten path and applies only if its container prefix is a
\* prefix of it, otherwise the earlier entry's result stands.
C3_EarlierRewritesFirst ==
    TwoOverlappingEntries =>
        LET earlier   == ParseEntries(m_text)[1]
            later     == ParseEntries(m_text)[2]
            rewritten == earlier.host \o slice_from(m_path, Len(earlier.container))
        IN m_result = IF startswith(rewritten, later.container)
                      THEN later.host \o slice_from(rewritten, Len(later.container))
                      ELSE rewritten

\* C3 witness: both container prefixes match the input, they differ, and the
\* result is the earlier entry's rewrite, not the later entry's.
C3_Witness ==
    /\ TwoOverlappingEntries
    /\ LET earlier == ParseEntries(m_text)[1]
           later   == ParseEntries(m_text)[2]
       IN /\ earlier.container # later.container
          /\ m_result = earlier.host \o slice_from(m_path, Len(earlier.container))
          /\ m_result # later.host \o slice_from(m_path, Len(later.container))

----------------------------------------------------------------------------
(* What a run of pytest_sessionfinish printed *)

FileAccessKinds == {"open:/proc/1/mountinfo", "inline-css"}

WarningKinds == {"logissue-warning:inline-css", "logissue-warning:no-coverage-xml"}

ResultsLineKinds == {"results.publish", "skip-results"}

CoverageOutcomeKinds ==
    {"codecoverage.publish", "logissue-warning:no-coverage-xml", "skip-coverage"}

\* The printed lines, in order.
Printed == SelectSeq(events, LAMBDA e : e.kind \notin FileAccessKinds)

\* How many events of these kinds there are.
Count(kinds) == Cardinality({i \in 1..Len(events) : events[i].kind \in kinds})

Happened(e) == \E i \in 1..Len(events) : events[i] = e

\* The hook has returned or an exception has left it.
HookEnded == pc \in {"done", "raised"}

\* The hook has returned.
HookReturned == pc = "done"

\* The run is containerized and detection is enabled.
Containerized == ~opt.no_docker_discovery /\ env.dockerenv = "file"

\* A path as the specification reports it: remapped through the mount table
\* when the run is containerized.
Reported(path) ==
    IF Containerized
    THEN RemapEntries(ParseEntries(env.proc_mountinfo.text), path)
    ELSE path

FailuresToReport ==
    sess.exitstatus # 0 /\ sess.testsfailed > 0 /\ ~sess.shouldfail

CoverageWanted ==
    ~opt.no_coverage_upload /\ ~opt.no_docker_discovery /\ env.has_pytest_cov

ResultsPublished == Count({"results.publish"})

ResultsAndCoverageLines(ended) ==
    ended =>
        IF ~opt.no_docker_discovery
        THEN ResultsPublished = 1
        ELSE /\ ResultsPublished = 0
             /\ Count({"skip-results"}) = 1
             /\ Count({"codecoverage.publish"}) = 0

\* C4: in every run of the hook, without --no-docker-discovery exactly one
\* results.publish directive is printed; with it none is, the plain
\* 'Skipping uploading of test results' line is printed instead and no
\* codecoverage.publish directive is printed.
C4_ResultsLine == ResultsAndCoverageLines(HookEnded)

\* C4 on the runs in which the hook returns.
C4_WhenHookReturns == ResultsAndCoverageLines(HookReturned)

\* C5: container detection never makes the hook fail: with /.dockerenv
\* absent, or /proc/1/mountinfo absent or unreadable, the run is treated as
\* not containerized, the result path is not remapped and the publish
\* directive is printed.
C5_DetectionNeverFatal ==
    (HookEnded /\ ~opt.no_docker_discovery
        /\ (env.dockerenv # "file" \/ ~env.proc_mountinfo.ok)) =>
        /\ pc = "done"
        /\ Happened(ResultsPublish(abspath(nunit_xmlpath),
                                   strip_char(opt.azure_run_title, "'")))

\* C5 for the sentinel alone: with no file /.dockerenv the hook returns and
\* has published the result path as it is.
C5_WhenSentinelAbsent ==
    (HookEnded /\ ~opt.no_docker_discovery /\ env.dockerenv # "file") =>
        /\ pc = "done"
        /\ Happened(ResultsPublish(abspath(nunit_xmlpath),
                                   strip_char(opt.azure_run_title, "'")))
        /\ Count({"open:/proc/1/mountinfo"}) = 0

ErrorDirective(ended) ==
    ended =>
        IF FailuresToReport
        THEN /\ Count({"logissue-error"}) = 1
             /\ Happened(LogIssueError(sess.testsfailed, sess.testscollected))
        ELSE Count({"logissue-error"}) = 0

\* C6: the error directive '<failed> test(s) failed, <collected> test(s)
\* collected.' is printed exactly once if exitstatus # 0, testsfailed > 0 and
\* shouldfail is false, and not at all otherwise, whatever the options are.
C6_ErrorDirective == ErrorDirective(HookEnded)

\* C6 on the runs in which the hook returns.
C6_WhenHookReturns == ErrorDirective(HookReturned)

CoverageOutcome(ended) ==
    (ended /\ CoverageWanted) =>
        IF ~env.cov_xml_exists
        THEN /\ Count({"logissue-warning:no-coverage-xml"}) = 1
             /\ Count({"codecoverage.publish"}) = 0
             /\ pc = "done"
        ELSE /\ Count({"codecoverage.publish"}) = 1
             /\ Happened(CoveragePublish(
                    Reported(abspath(DEFAULT_COVERAGE_PATH)),
                    Reported(abspath(DEFAULT_HTML_COVERAGE_PATH))))

\* C7: with coverage upload and detection enabled and the coverage plugin
\* active, a missing coverage XML gives one warning, no codecoverage.publish
\* and a normal return; an existing one gives exactly one
\* codecoverage.publish with the XML path and the HTML directory, remapped
\* when the run is containerized.
C7_CoverageOutcome == CoverageOutcome(HookEnded)

\* C7 on the runs in which the hook returns.
C7_WhenHookReturns == CoverageOutcome(HookReturned)

\* Inlining was called and raised.
InliningFailed == Count({"inline-css"}) = 1 /\ env.inline_css_error

\* C8: a failure raised while inlining the stylesheet is caught, reported as
\* one warning directive and does not abort the hook: codecoverage.publish
\* is printed after it, the same as when inlining succeeds.
C8_InliningFailureCaught ==
    (HookEnded /\ InliningFailed) =>
        LET out == Printed IN
        /\ pc = "done"
        /\ Count({"logissue-warning:inline-css"}) = 1
        /\ Len(out) >= 2
        /\ out[Len(out) - 1] = WarnInlineFailed
        /\ out[Len(out)] = CoveragePublish(
                               Reported(abspath(DEFAULT_COVERAGE_PATH)),
                               Reported(abspath(DEFAULT_HTML_COVERAGE_PATH)))

\* C8 witness: inlining failed in a containerized run whose paths the mount
\* table rewrites, and the hook has ended.
C8_Witness ==
    /\ HookEnded
    /\ InliningFailed
    /\ Containerized
    /\ Reported(abspath(DEFAULT_COVERAGE_PATH)) # abspath(DEFAULT_COVERAGE_PATH)

\* A run outside a container, with the options at their defaults and no
\* failed test, that has ended.
DefaultRunEnded ==
    /\ HookEnded
    /\ env.dockerenv = "absent"
    /\ ~opt.no_docker_discovery
    /\ ~opt.no_coverage_upload
    /\ opt.azure_run_title = DefaultRunTitle
    /\ nunit_xmlpath = DEFAULT_PATH
    /\ sess.testsfailed = 0

OutputOrder(ended) ==
    ended =>
        LET out == Printed IN
        /\ Len(out) >= 2
        /\ out[1].kind \in ResultsLineKinds
        /\ Count(ResultsLineKinds) = 1
        /\ \A i \in 1..Len(out) : out[i].kind = "logissue-error" => i = 2
        /\ out[Len(out)].kind \in CoverageOutcomeKinds
        /\ Count(CoverageOutcomeKinds) = 1
        /\ \A i \in 1..Len(out) :
               out[i].kind = "logissue-warning:inline-css" =>
                   i = Len(out) - 1 /\ out[Len(out)].kind = "codecoverage.publish"
        /\ Count({"open:/proc/1/mountinfo"}) <= 1
        /\ \A i \in 1..Len(events) :
               events[i].kind = "open:/proc/1/mountinfo" => i = 1

\* C10: in one run the results line is printed first, the error directive
\* after it, the coverage outcome last; there is exactly one coverage outcome
\* per run; the mount table is read at most once and before the first line.
C10_OutputOrder == OutputOrder(HookEnded)

\* C10 on the runs in which the hook returns.
C10_WhenHookReturns == OutputOrder(HookReturned)

====
